---- MODULE Spec2Model ----
(***************************************************************************)
(* git2one: walk a repository, select text files by include / exclude /    *)
(* .gitignore rules, optionally strip Python comments, and write the       *)
(* collected records in one of four formats (src/git2one.py).              *)
(*                                                                         *)
(* Text is a sequence of one-character strings: "a.py" is                  *)
(* <<"a", ".", "p", "y">>.  A pathlib.Path is the sequence of its          *)
(* components, each a text; the empty sequence is Path('.').               *)
(***************************************************************************)
EXTENDS Integers, Sequences, FiniteSets, TLC

\* An optional value: None is the empty sequence, a present value v is <<v>>.
None == <<>>
Some(v) == <<v>>

\* Python's (x or default) for an optional list: None and [] both give the default.
OrElse(x, default) == IF x = None \/ x[1] = <<>> THEN default ELSE x[1]

(***************************************************************************)
(* Text primitives (str methods used by the source).                       *)
(***************************************************************************)

\* The elements of a sequence.
Range(s) == {s[i] : i \in 1..Len(s)}

\* s[i:] in Python terms, with i 1-based here.
From(s, i) == SubSeq(s, i, Len(s))

\* str.startswith.
startswith(s, p) == Len(s) >= Len(p) /\ SubSeq(s, 1, Len(p)) = p

\* str.endswith.
endswith(s, p) == Len(s) >= Len(p) /\ SubSeq(s, Len(s) - Len(p) + 1, Len(s)) = p

\* str.rstrip('/').
RECURSIVE rstrip_slash(_)
rstrip_slash(s) ==
    IF s # <<>> /\ s[Len(s)] = "/" THEN rstrip_slash(SubSeq(s, 1, Len(s) - 1)) ELSE s

\* Characters str.strip() and \s treat as whitespace.
Whitespace == {" ", "\n", "\t", "\r"}

\* Characters \w matches.
WordChars == {"a", "b", "c", "d", "e", "g", "k", "l", "m", "o", "p", "q", "r", "s",
              "u", "v", "w", "x", "y", "P", "U", "Y", "_"}

\* bool(content.strip()): some character is not whitespace.
NonBlank(s) == \E i \in 1..Len(s) : s[i] \notin Whitespace

\* str.lower() on one character.
LowerChar(c) ==
    CASE c = "P" -> "p"
      [] c = "U" -> "u"
      [] c = "Y" -> "y"
      [] OTHER -> c

\* str.lower().
lower(s) == [i \in 1..Len(s) |-> LowerChar(s[i])]

\* str.rfind('.'), 1-based, 0 when absent.
RECURSIVE rfind_dot(_, _)
rfind_dot(s, i) ==
    IF i = 0 THEN 0 ELSE IF s[i] = "." THEN i ELSE rfind_dot(s, i - 1)

\* PurePath.suffix of a file name: from the last dot, unless the dot is the
\* first or the last character of the name.
suffix(name) ==
    LET i == rfind_dot(name, Len(name))
    IN  IF 1 < i /\ i < Len(name) THEN From(name, i) ELSE <<>>

\* str.splitlines(): split at line breaks, no empty last line.
RECURSIVE splitlines_from(_, _)
splitlines_from(s, cur) ==
    IF s = <<>> THEN (IF cur = <<>> THEN <<>> ELSE <<cur>>)
    ELSE IF s[1] \in {"\n", "\r"} THEN <<cur>> \o splitlines_from(Tail(s), <<>>)
    ELSE splitlines_from(Tail(s), Append(cur, s[1]))

splitlines(s) == splitlines_from(s, <<>>)

\* sep.join(parts).
RECURSIVE join(_, _)
join(sep, parts) ==
    IF parts = <<>> THEN <<>>
    ELSE IF Len(parts) = 1 THEN parts[1]
    ELSE parts[1] \o sep \o join(sep, Tail(parts))

(***************************************************************************)
(* fnmatch.fnmatch on POSIX: case-sensitive whole-string glob, '*' any     *)
(* run of characters ('/' included), '?' any one character.  No pattern of *)
(* the model uses a bracket class.                                         *)
(***************************************************************************)
RECURSIVE fnmatch(_, _)
fnmatch(name, pat) ==
    IF pat = <<>> THEN name = <<>>
    ELSE IF pat[1] = "*"
         THEN fnmatch(name, Tail(pat)) \/ (name # <<>> /\ fnmatch(Tail(name), pat))
    ELSE IF name = <<>> THEN FALSE
    ELSE IF pat[1] = "?" THEN fnmatch(Tail(name), Tail(pat))
    ELSE name[1] = pat[1] /\ fnmatch(Tail(name), Tail(pat))

\* str(path).replace(os.sep, '/') of a relative Path.
PathStr(p) == IF p = <<>> THEN <<".">> ELSE join(<<"/">>, p)

(***************************************************************************)
(* strip_python_comments                                                   *)
(***************************************************************************)
DQ3 == <<"\"", "\"", "\"">>
SQ3 == <<"'", "'", "'">>

\* Least j >= i at which q starts in s, 0 when there is none.
RECURSIVE find(_, _, _)
find(s, q, i) ==
    IF i + Len(q) - 1 > Len(s) THEN 0
    ELSE IF SubSeq(s, i, i + Len(q) - 1) = q THEN i
    ELSE find(s, q, i + 1)

\* re.sub(r'("""[\s\S]*?"""|\'\'\'[\s\S]*?\'\'\')', '', content): one left to
\* right pass; at each position a span opens when the opening quotes have a
\* closing triple after them, and the shortest such span is removed.
RECURSIVE remove_triple_quoted(_)
remove_triple_quoted(s) ==
    IF s = <<>> THEN <<>>
    ELSE LET q == IF startswith(s, DQ3) THEN DQ3
                  ELSE IF startswith(s, SQ3) THEN SQ3 ELSE <<>>
             j == IF q = <<>> THEN 0 ELSE find(s, q, 4)
         IN  IF j > 0 THEN remove_triple_quoted(From(s, j + 3))
             ELSE <<s[1]>> \o remove_triple_quoted(Tail(s))

\* re.sub(r'#.*', '', content): '.' stops at a newline.
RECURSIVE remove_hash_comments(_, _)
remove_hash_comments(s, in_comment) ==
    IF s = <<>> THEN <<>>
    ELSE IF s[1] = "\n" THEN <<"\n">> \o remove_hash_comments(Tail(s), FALSE)
    ELSE IF in_comment \/ s[1] = "#" THEN remove_hash_comments(Tail(s), TRUE)
    ELSE <<s[1]>> \o remove_hash_comments(Tail(s), FALSE)

\* '\n'.join(line for line in content.splitlines() if line.strip()).
drop_blank_lines(s) ==
    join(<<"\n">>, SelectSeq(splitlines(s), NonBlank))

strip_python_comments(content) ==
    drop_blank_lines(remove_hash_comments(remove_triple_quoted(content), FALSE))

(***************************************************************************)
(* The file system the run sees.  /r is the repository root; /t lies       *)
(* outside it.                                                             *)
(*   /r/.gitignore      when the scenario has one                          *)
(*   /r/a.py            content chosen by the scenario                     *)
(*   /r/U.PY            upper-case extension                               *)
(*   /r/l.py            regular file, or a symlink chosen by the scenario  *)
(*   /r/d.log  /r/e.ex  (e.ex holds bytes that are not UTF-8)              *)
(*   /r/b/x.py  /r/b/d/y.py  /r/s/u.py                                     *)
(*   /r/o -> /t         a symlinked directory                              *)
(***************************************************************************)
n_gitignore == <<".", "g", "i", "t", "i", "g", "n", "o", "r", "e">>
n_a_py == <<"a", ".", "p", "y">>
n_U_PY == <<"U", ".", "P", "Y">>
n_l_py == <<"l", ".", "p", "y">>
n_d_log == <<"d", ".", "l", "o", "g">>
n_e_ex == <<"e", ".", "e", "x">>
n_x_py == <<"x", ".", "p", "y">>
n_y_py == <<"y", ".", "p", "y">>
n_u_py == <<"u", ".", "p", "y">>
n_k_py == <<"k", ".", "p", "y">>
n_r == <<"r">>
n_t == <<"t">>
n_b == <<"b">>
n_d == <<"d">>
n_s == <<"s">>
n_o == <<"o">>

\* Path(repo_path).resolve().
RepoPath == <<n_r>>

\* The directories of the tree that are real directories, the symlinked one,
\* and every file entry.
RealDirs == {<<n_r>>, <<n_r, n_b>>, <<n_r, n_b, n_d>>, <<n_r, n_s>>}
LinkDirs == {<<n_r, n_o>>}
TreeFiles == {<<n_r, n_gitignore>>, <<n_r, n_a_py>>, <<n_r, n_U_PY>>, <<n_r, n_l_py>>,
              <<n_r, n_d_log>>, <<n_r, n_e_ex>>, <<n_r, n_b, n_x_py>>,
              <<n_r, n_b, n_d, n_y_py>>, <<n_r, n_s, n_u_py>>}

\* What the scenario may choose about the file system.
AKinds == {"code", "blank", "comment", "undecodable"}
LKinds == {"regular", "outside", "broken"}
GitignoreKinds == {"absent", "unparsable", "log", "dir"}

\* os.scandir of a directory, split by os.walk into dirs and files in the
\* order the file system yields them.
Listing(e, dir) ==
    CASE dir = <<n_r>> ->
           [dirs |-> <<n_b, n_o, n_s>>,
            files |-> (IF e.gitignore = "absent" THEN <<>> ELSE <<n_gitignore>>)
                      \o <<n_a_py, n_U_PY, n_l_py, n_d_log, n_e_ex>>]
      [] dir = <<n_r, n_b>> -> [dirs |-> <<n_d>>, files |-> <<n_x_py>>]
      [] dir = <<n_r, n_b, n_d>> -> [dirs |-> <<>>, files |-> <<n_y_py>>]
      [] dir = <<n_r, n_s>> -> [dirs |-> <<>>, files |-> <<n_u_py>>]
      [] OTHER -> [dirs |-> <<>>, files |-> <<>>]

\* os.path.islink.
islink(e, p) ==
    \/ p \in LinkDirs
    \/ p = <<n_r, n_l_py>> /\ e.l_kind # "regular"

\* Path.resolve(): symbolic links followed.
resolve(e, p) ==
    IF p = <<n_r, n_o>> THEN <<n_t>>
    ELSE IF p = <<n_r, n_l_py>> /\ e.l_kind = "outside" THEN <<n_t, n_k_py>>
    ELSE IF p = <<n_r, n_l_py>> /\ e.l_kind = "broken" THEN <<n_t, <<"g">>>>
    ELSE p

\* PurePath.relative_to succeeds exactly when base is a leading part of p
\* (a comparison of the components, no file system access).
IsUnder(p, base) == Len(p) >= Len(base) /\ SubSeq(p, 1, Len(base)) = base
relative_to(p, base) == From(p, Len(base) + 1)

\* file_path.open('r', encoding='utf-8') and infile.read(): the text, or the
\* exception raised.  open() follows a symlink to its target.
ReadFile(e, p) ==
    LET ok(text) == [ok |-> TRUE, content |-> text, exc |-> "none"]
        fail(x) == [ok |-> FALSE, content |-> <<>>, exc |-> x]
    IN  CASE p = <<n_r, n_a_py>> ->
               (CASE e.a_kind = "code" -> ok(<<"x", "#", "c">>)
                  [] e.a_kind = "blank" -> ok(<<" ", "\n">>)
                  [] e.a_kind = "comment" -> ok(<<"#", "c">>)
                  [] OTHER -> fail("UnicodeDecodeError"))
          [] p = <<n_r, n_l_py>> ->
               (CASE e.l_kind = "regular" -> ok(<<"v">>)
                  [] e.l_kind = "outside" -> ok(<<"k">>)
                  [] OTHER -> fail("IOError"))
          [] p = <<n_r, n_U_PY>> -> ok(<<"w", "#", "c">>)
          [] p = <<n_r, n_d_log>> -> ok(<<"g">>)
          [] p = <<n_r, n_e_ex>> -> fail("UnicodeDecodeError")
          [] p = <<n_r, n_b, n_x_py>> -> ok(<<"p">>)
          [] p = <<n_r, n_b, n_d, n_y_py>> -> ok(<<"y">>)
          [] p = <<n_r, n_s, n_u_py>> -> ok(SQ3 \o <<"d">> \o SQ3 \o <<"\n", "q">>)
          [] p = <<n_r, n_gitignore>> -> ok(<<"*">>)
          [] OTHER -> fail("IOError")

(***************************************************************************)
(* The configuration file and load_config.                                 *)
(***************************************************************************)
e_py == <<".", "p", "y">>
e_PY == <<".", "P", "Y">>
e_log == <<".", "l", "o", "g">>
p_star_ex == <<"*", ".", "e", "x">>
n_out_txt == <<"o", "u", "t", ".", "t", "x", "t">>
n_repo_combined == <<"r", "e", "p", "o", "_", "c", "o", "m", "b", "i", "n", "e", "d",
                     ".", "t", "x", "t">>

\* token_multiplier 1.3 as a fraction.
Mult13 == [num |-> 13, den |-> 10]

ConfigKinds == {"missing", "malformed", "list", "full", "plain", "upper",
                "no_text_extensions", "no_token_multiplier"}

\* yaml.safe_load of the configuration file: a mapping, or a document that is
\* no mapping.
ConfigDoc(kind) ==
    CASE kind = "full" ->
           [mapping |-> TRUE,
            doc |-> [text_extensions |-> <<e_py, e_log>>,
                     default_exclusions |-> <<p_star_ex>>,
                     default_output |-> n_out_txt,
                     token_multiplier |-> Mult13]]
      [] kind = "plain" ->
           [mapping |-> TRUE,
            doc |-> [text_extensions |-> <<e_py>>, token_multiplier |-> Mult13]]
      [] kind = "upper" ->
           [mapping |-> TRUE,
            doc |-> [text_extensions |-> <<e_PY>>, token_multiplier |-> Mult13]]
      [] kind = "no_text_extensions" ->
           [mapping |-> TRUE,
            doc |-> [default_exclusions |-> <<p_star_ex>>, token_multiplier |-> Mult13]]
      [] kind = "no_token_multiplier" ->
           [mapping |-> TRUE,
            doc |-> [text_extensions |-> <<e_py>>, default_output |-> n_out_txt]]
      [] OTHER -> [mapping |-> FALSE, doc |-> [items |-> <<>>]]

\* The exception load_config raises, "none" when it returns.
load_config_raises(kind) ==
    CASE kind = "missing" -> "FileNotFoundError"
      [] kind = "malformed" -> "YAMLError"
      [] OTHER -> "none"

\* The config before it is loaded.
NoConfig == [mapping |-> FALSE, doc |-> [items |-> <<>>]]

\* key in config, for a mapping.
HasKey(c, key) == c.mapping /\ key \in DOMAIN c.doc

(***************************************************************************)
(* Pattern handling of concatenate_repo.                                   *)
(***************************************************************************)

\* any(fnmatch(name, pattern) for pattern in patterns).
AnyMatch(name, patterns) == \E i \in 1..Len(patterns) : fnmatch(name, patterns[i])

should_ignore(file_path, ignore_patterns) ==
    AnyMatch(PathStr(file_path), ignore_patterns)

\* is_text_file without the .lower(): the suffix is compared as written.
is_text_file_exact(file_path, text_extensions) ==
    suffix(file_path[Len(file_path)]) \in Range(text_extensions)

\* is_text_file accepting every file that has a suffix.
is_text_file_any_suffix(file_path, text_extensions) ==
    suffix(file_path[Len(file_path)]) # <<>>

is_text_file(file_path, text_extensions) ==
    lower(suffix(file_path[Len(file_path)])) \in Range(text_extensions)

\* p.replace(os.sep, '/') (the identity on POSIX) and the removal of a
\* leading './'.
norm_pattern(p) == IF startswith(p, <<".", "/">>) THEN From(p, 3) ELSE p

\* The exclusion loop: a pattern ending in '/' becomes the directory name and
\* 'name/*'.
RECURSIVE normalize_exclude(_)
normalize_exclude(patterns) ==
    IF patterns = <<>> THEN <<>>
    ELSE LET norm_p == norm_pattern(patterns[1])
             dir_path == rstrip_slash(norm_p)
         IN  (IF endswith(norm_p, <<"/">>)
              THEN <<dir_path, dir_path \o <<"/", "*">>>>
              ELSE <<norm_p>>)
             \o normalize_exclude(Tail(patterns))

\* The inclusion loop: a pattern ending in '/' gets a '*' appended.
RECURSIVE normalize_include(_)
normalize_include(patterns) ==
    IF patterns = <<>> THEN <<>>
    ELSE LET norm_p == norm_pattern(patterns[1])
         IN  <<IF endswith(norm_p, <<"/">>) THEN norm_p \o <<"*">> ELSE norm_p>>
             \o normalize_include(Tail(patterns))

\* The include test dropped: no file is skipped for its include patterns.
include_rejects_never(norm_path_str, include_patterns) == FALSE

\* The include test of the file loop: true when the file is skipped for
\* matching no include pattern.
include_rejects(norm_path_str, include_patterns) ==
    include_patterns # <<>> /\ ~AnyMatch(norm_path_str, include_patterns)

\* The rules parse_gitignore reads from the root's .gitignore.
p_star_log == <<"*", ".", "l", "o", "g">>
p_b_slash == <<"b", "/">>
GitignoreRules(kind) ==
    CASE kind = "log" -> <<p_star_log>>
      [] kind = "dir" -> <<p_b_slash>>
      [] OTHER -> <<>>

\* The matcher parse_gitignore returns, for rules without an inner '/': a rule
\* matches a path when it matches one of the path's components as a glob, a
\* rule ending in '/' only a component that is a directory; what lies under a
\* matched directory is matched too.
gitignore_match(rules, abs_path) ==
    LET rel == relative_to(abs_path, RepoPath)
    IN  \E i \in 1..Len(rules) : \E k \in 1..Len(rel) :
           /\ fnmatch(rel[k], rstrip_slash(rules[i]))
           /\ endswith(rules[i], <<"/">>) =>
                 RepoPath \o SubSeq(rel, 1, k) \in RealDirs \cup LinkDirs

\* The matcher built without looking at --ignore-gitignore.
make_gitignore_matcher_unflagged(ignore_gitignore, kind) ==
    IF kind # "absent" /\ kind # "unparsable" THEN Some(GitignoreRules(kind)) ELSE None

\* The matcher concatenate_repo ends up with: None when --ignore-gitignore is
\* given, when the root has no .gitignore, or when parsing it raised.
make_gitignore_matcher(ignore_gitignore, kind) ==
    IF ~ignore_gitignore /\ kind # "absent" /\ kind # "unparsable"
    THEN Some(GitignoreRules(kind)) ELSE None

\* The pattern pruning dropped: every listed directory is kept.
prune_by_patterns_none(rel_root, dirs, ignore_patterns) == dirs

\* dirs[:] = [d for d in dirs if not should_ignore(rel_root / d, ignore_patterns)]
prune_by_patterns(rel_root, dirs, ignore_patterns) ==
    SelectSeq(dirs, LAMBDA d : ~should_ignore(Append(rel_root, d), ignore_patterns))

\* if gitignore_matcher: dirs[:] = [d for d in dirs if not gitignore_matcher(root_path / d)]
prune_by_gitignore(root_path, dirs, matcher) ==
    IF matcher = None THEN dirs
    ELSE SelectSeq(dirs, LAMBDA d : ~gitignore_match(matcher[1], Append(root_path, d)))

\* os.walk(followlinks=False): the directories among dirs it walks into next.
descend(e, top, dirs) ==
    LET paths == [i \in 1..Len(dirs) |-> Append(top, dirs[i])]
    IN  SelectSeq(paths, LAMBDA q : ~islink(e, q))

\* The except clause catching decoding errors only.
read_error_caught_decode_only(exc) == exc = "UnicodeDecodeError"

\* except (UnicodeDecodeError, IOError): the exceptions the file loop catches.
read_error_caught(exc) == exc \in {"UnicodeDecodeError", "IOError"}

(***************************************************************************)
(* estimate_tokens                                                         *)
(***************************************************************************)

\* len(re.findall(r'\w+|[^\w\s]', content)): runs of word characters, and
\* single characters that are neither word characters nor whitespace.
RECURSIVE count_tokens(_, _)
count_tokens(s, in_word) ==
    IF s = <<>> THEN 0
    ELSE IF s[1] \in WordChars
         THEN (IF in_word THEN 0 ELSE 1) + count_tokens(Tail(s), TRUE)
    ELSE IF s[1] \in Whitespace THEN count_tokens(Tail(s), FALSE)
    ELSE 1 + count_tokens(Tail(s), FALSE)

estimate_tokens(content, token_multiplier) ==
    (count_tokens(content, FALSE) * token_multiplier.num) \div token_multiplier.den

(***************************************************************************)
(* The four writers.  Written text is a sequence whose elements are the    *)
(* characters of the data and the fixed pieces of the format.              *)
(***************************************************************************)

\* The concatenation of a sequence of sequences.
RECURSIVE flatten(_)
flatten(parts) == IF parts = <<>> THEN <<>> ELSE parts[1] \o flatten(Tail(parts))

\* sum(len(f["content"]) for f in files_data).
RECURSIVE sum_content_len(_)
sum_content_len(files_data) ==
    IF files_data = <<>> THEN 0
    ELSE Len(files_data[1].content) + sum_content_len(Tail(files_data))

write_text_format(files_data) ==
    flatten([i \in 1..Len(files_data) |->
        <<"--- File: ">> \o files_data[i].path \o <<" ---\n">>
        \o files_data[i].content \o <<"\n\n">>])

\* json_data with total_size summing the line counts instead of the lengths.
json_data_line_total(files_data) ==
    [files |-> [i \in 1..Len(files_data) |->
                  [path |-> files_data[i].path,
                   content |-> files_data[i].content,
                   size |-> Len(files_data[i].content),
                   lines |-> Len(splitlines(files_data[i].content))]],
     summary |-> [total_files |-> Len(files_data),
                  total_size |-> Len(flatten([i \in 1..Len(files_data) |->
                                     splitlines(files_data[i].content)]))]]

\* The json_data dictionary write_json_format builds.
json_data(files_data) ==
    [files |-> [i \in 1..Len(files_data) |->
                  [path |-> files_data[i].path,
                   content |-> files_data[i].content,
                   size |-> Len(files_data[i].content),
                   lines |-> Len(splitlines(files_data[i].content))]],
     summary |-> [total_files |-> Len(files_data),
                  total_size |-> sum_content_len(files_data)]]

\* json.dump's encoding of a string (ensure_ascii=False): the quote, the
\* backslash and the control characters are escaped.
json_encode_char(c) ==
    CASE c = "\"" -> <<"\\", "\"">>
      [] c = "\\" -> <<"\\", "\\">>
      [] c = "\n" -> <<"\\", "n">>
      [] c = "\r" -> <<"\\", "r">>
      [] c = "\t" -> <<"\\", "t">>
      [] OTHER -> <<c>>

json_encode_string(s) == flatten([i \in 1..Len(s) |-> json_encode_char(s[i])])

\* json.load's decoding of a string.
RECURSIVE json_decode_string(_)
json_decode_string(s) ==
    IF s = <<>> THEN <<>>
    ELSE IF s[1] = "\\" /\ Len(s) >= 2
         THEN <<CASE s[2] = "n" -> "\n"
                  [] s[2] = "r" -> "\r"
                  [] s[2] = "t" -> "\t"
                  [] OTHER -> s[2]>> \o json_decode_string(From(s, 3))
    ELSE <<s[1]>> \o json_decode_string(Tail(s))

\* json.dump(json_data, outfile, indent=2, ensure_ascii=False): the document,
\* every string in its encoded form.
json_dump(data) ==
    [files |-> [i \in 1..Len(data.files) |->
                  [path |-> json_encode_string(data.files[i].path),
                   content |-> json_encode_string(data.files[i].content),
                   size |-> data.files[i].size,
                   lines |-> data.files[i].lines]],
     summary |-> data.summary]

\* json.load of a written document.
json_load(document) ==
    [files |-> [i \in 1..Len(document.files) |->
                  [path |-> json_decode_string(document.files[i].path),
                   content |-> json_decode_string(document.files[i].content),
                   size |-> document.files[i].size,
                   lines |-> document.files[i].lines]],
     summary |-> document.summary]

write_json_format(files_data) == json_dump(json_data(files_data))

\* .replace('&', '&amp;').replace('<', '&lt;').replace('>', '&gt;')
xml_escape(s) ==
    flatten([i \in 1..Len(s) |->
        CASE s[i] = "&" -> <<"&", "a", "m", "p", ";">>
          [] s[i] = "<" -> <<"&", "l", "t", ";">>
          [] s[i] = ">" -> <<"&", "g", "t", ";">>
          [] OTHER -> <<s[i]>>])

write_xml_format(files_data) ==
    <<"<?xml version=\"1.0\" encoding=\"UTF-8\"?>\n", "<repository>\n">>
    \o flatten([i \in 1..Len(files_data) |->
        <<"  <file path=\"">> \o xml_escape(files_data[i].path) \o <<"\">\n">>
        \o <<"    <content><![CDATA[">> \o xml_escape(files_data[i].content)
        \o <<"]]></content>\n", "  </file>\n">>])
    \o <<"</repository>\n">>

\* lang_map.get(ext, '') for the extensions the tree can hold.
markdown_lang(ext) ==
    CASE ext = <<".", "p", "y">> -> "python"
      [] ext = <<".", "j", "s">> -> "javascript"
      [] ext = <<".", "c">> -> "c"
      [] ext = <<".", "g", "o">> -> "go"
      [] ext = <<".", "s", "h">> -> "bash"
      [] ext = <<".", "x", "m", "l">> -> "xml"
      [] ext = <<".", "y", "m", "l">> -> "yaml"
      [] OTHER -> ""

\* Path(path).suffix of a path given as text: the suffix of its last component.
RECURSIVE basename(_)
basename(path_str) ==
    LET i == find(path_str, <<"/">>, 1)
    IN  IF i = 0 THEN path_str ELSE basename(From(path_str, i + 1))

\* The three backquotes of a Markdown code fence, as one piece.
fence == "fence"

write_markdown_format(files_data) ==
    <<"# Repository Contents\n\n", "Total files: ", Len(files_data), "\n\n">>
    \o flatten([i \in 1..Len(files_data) |->
        <<"## ">> \o files_data[i].path \o <<"\n\n">>
        \o <<fence, markdown_lang(lower(suffix(basename(files_data[i].path)))), "\n">>
        \o files_data[i].content \o <<"\n", fence, "\n\n">>])

get_output_format(output_file) ==
    LET ext == lower(suffix(basename(output_file)))
    IN  CASE ext = <<".", "j", "s", "o", "n">> -> "json"
          [] ext = <<".", "x", "m", "l">> -> "xml"
          [] ext = <<".", "m", "d">> -> "markdown"
          [] OTHER -> "text"

\* The dispatch that ends concatenate_repo.
render(output_format, files_data) ==
    CASE output_format = "json" -> [format |-> "json", payload |-> write_json_format(files_data)]
      [] output_format = "xml" -> [format |-> "xml", payload |-> write_xml_format(files_data)]
      [] output_format = "markdown" ->
           [format |-> "markdown", payload |-> write_markdown_format(files_data)]
      [] OTHER -> [format |-> "text", payload |-> write_text_format(files_data)]

(***************************************************************************)
(* The run: main and concatenate_repo.                                     *)
(***************************************************************************)
VARIABLES
    pc,                \* where the run is
    args,              \* the parsed command line
    env,               \* the scenario: config file, .gitignore, file kinds
    config,            \* what load_config returned
    error,             \* the exception that ended the run, "none" otherwise
    output_file,       \* main's output_file
    output_format,     \* concatenate_repo's output_format
    ignore_patterns,   \* the normalized exclusion patterns
    include_patterns,  \* the normalized inclusion patterns
    gitignore_matcher, \* None or the parsed rules
    walk_stack,        \* the directories os.walk has still to yield
    root_path,         \* the resolved directory being processed
    cur_files,         \* the files of root_path not yet processed
    files_data,        \* the records collected so far
    file_count,
    total_tokens,
    visited,           \* the directories os.walk has yielded
    read_files,        \* the files open() was called on
    output,            \* None, or what was written to the output file
    content,           \* the text given to strip_python_comments
    stripped,          \* its result, once computed
    restripped         \* the result of stripping that again

vars == <<pc, args, env, config, error, output_file, output_format, ignore_patterns,
          include_patterns, gitignore_matcher, walk_stack, root_path, cur_files,
          files_data, file_count, total_tokens, visited, read_files, output,
          content, stripped, restripped>>

walk_vars == <<walk_stack, root_path, cur_files, files_data, file_count, total_tokens,
               visited, read_files>>
setup_vars == <<output_format, ignore_patterns, include_patterns, gitignore_matcher>>
strip_vars == <<content, stripped, restripped>>

\* Command lines and scenarios the runs are drawn from.
p_star_py == <<"*", ".", "p", "y">>
p_dot_s_slash == <<".", "/", "s", "/">>
p_b == <<"b">>
p_dot_l_py == <<".", "/", "l", ".", "p", "y">>
n_o_json == <<"o", ".", "j", "s", "o", "n">>
n_o_MD == <<"o", ".", "M", "D">>

IncludeChoices == {None, Some(<<>>), Some(<<p_star_py>>), Some(<<p_dot_s_slash>>)}
ExcludeChoices == {None, Some(<<p_b_slash>>), Some(<<p_b, p_dot_l_py, p_star_log>>)}
OutputChoices == {[output |-> None, format |-> None],
                  [output |-> Some(n_o_json), format |-> None],
                  [output |-> Some(n_o_MD), format |-> None],
                  [output |-> Some(n_out_txt), format |-> Some("xml")]}
GitignoreChoices == {[kind |-> "absent", ignore |-> FALSE],
                     [kind |-> "unparsable", ignore |-> FALSE],
                     [kind |-> "log", ignore |-> FALSE],
                     [kind |-> "dir", ignore |-> FALSE],
                     [kind |-> "log", ignore |-> TRUE]}
FileChoices == {[a_kind |-> a, l_kind |-> "regular"] : a \in AKinds}
               \cup {[a_kind |-> "code", l_kind |-> l] : l \in LKinds}

Init ==
    /\ pc = "load_config"
    /\ \E inc \in IncludeChoices, exc \in ExcludeChoices, out \in OutputChoices,
          g \in GitignoreChoices, sc \in BOOLEAN, c \in ConfigKinds, f \in FileChoices :
          /\ args = [include |-> inc, exclude |-> exc, ignore_gitignore |-> g.ignore,
                     strip_comments |-> sc, output |-> out.output, format |-> out.format]
          /\ env = [config_file |-> c, gitignore |-> g.kind, a_kind |-> f.a_kind,
                    l_kind |-> f.l_kind]
    /\ config = NoConfig
    /\ error = "none"
    /\ output_file = None
    /\ output_format = None
    /\ ignore_patterns = <<>>
    /\ include_patterns = <<>>
    /\ gitignore_matcher = None
    /\ walk_stack = <<>>
    /\ root_path = <<>>
    /\ cur_files = <<>>
    /\ files_data = <<>>
    /\ file_count = 0
    /\ total_tokens = 0
    /\ visited = {}
    /\ read_files = {}
    /\ output = None
    /\ content = <<>>
    /\ stripped = None
    /\ restripped = None

\* main, the try around load_config: a missing or unparsable file is reported
\* and main returns.
LoadConfig ==
    /\ pc = "load_config"
    /\ LET raised == load_config_raises(env.config_file)
       IN  IF raised # "none"
           THEN /\ error' = raised
                /\ pc' = "exit"
                /\ UNCHANGED config
           ELSE /\ config' = ConfigDoc(env.config_file)
                /\ pc' = "main"
                /\ UNCHANGED error
    /\ UNCHANGED <<args, env, output_file, output, setup_vars, walk_vars, strip_vars>>

\* main: output_file = args.output or config.get('default_output', ...).
\* config.get is reached only without --output, and raises AttributeError on a
\* document that is no mapping.
ResolveOutput ==
    /\ pc = "main"
    /\ IF args.output # None
       THEN /\ output_file' = args.output
            /\ pc' = "prologue"
            /\ UNCHANGED error
       ELSE IF ~config.mapping
       THEN /\ error' = "AttributeError"
            /\ pc' = "crashed"
            /\ UNCHANGED output_file
       ELSE /\ output_file' = Some(IF HasKey(config, "default_output")
                                   THEN config.doc.default_output
                                   ELSE n_repo_combined)
            /\ pc' = "prologue"
            /\ UNCHANGED error
    /\ UNCHANGED <<args, env, config, output, setup_vars, walk_vars, strip_vars>>

\* concatenate_repo up to the walk: the output format, the normalized
\* patterns, the .gitignore matcher.
Prologue ==
    /\ pc = "prologue"
    /\ IF ~config.mapping
       THEN /\ error' = "AttributeError"
            /\ pc' = "crashed"
            /\ output_format' = Some(IF args.format = None
                                     THEN get_output_format(output_file[1])
                                     ELSE args.format[1])
            /\ UNCHANGED <<ignore_patterns, include_patterns, gitignore_matcher,
                           walk_stack>>
       ELSE /\ output_format' = Some(IF args.format = None
                                     THEN get_output_format(output_file[1])
                                     ELSE args.format[1])
            /\ ignore_patterns' =
                 normalize_exclude(OrElse(args.exclude, <<>>)
                                   \o (IF HasKey(config, "default_exclusions")
                                       THEN config.doc.default_exclusions ELSE <<>>))
            /\ include_patterns' = normalize_include(OrElse(args.include, <<>>))
            /\ gitignore_matcher' =
                 make_gitignore_matcher(args.ignore_gitignore, env.gitignore)
            /\ walk_stack' = <<RepoPath>>
            /\ pc' = "walk"
            /\ UNCHANGED error
    /\ UNCHANGED <<args, env, config, output_file, output, root_path, cur_files,
                   files_data, file_count, total_tokens, visited, read_files,
                   strip_vars>>

\* One iteration of the os.walk loop up to its file loop: the next directory is
\* yielded, resolved and checked against the root, and its subdirectories are
\* pruned; os.walk then walks the kept ones that are no symlinks, before the
\* directories that were already waiting.
WalkDir ==
    /\ pc = "walk"
    /\ cur_files = <<>>
    /\ walk_stack # <<>>
    /\ LET top == Head(walk_stack)
           resolved == resolve(env, top)
           listing == Listing(env, top)
       IN  /\ visited' = visited \cup {top}
           /\ IF ~IsUnder(resolved, RepoPath)
              THEN /\ walk_stack' = descend(env, top, listing.dirs) \o Tail(walk_stack)
                   /\ UNCHANGED <<root_path, cur_files>>
              ELSE LET rel_root == relative_to(resolved, RepoPath)
                       kept == prune_by_gitignore(resolved,
                                  prune_by_patterns(rel_root, listing.dirs, ignore_patterns),
                                  gitignore_matcher)
                   IN  /\ root_path' = resolved
                       /\ cur_files' = listing.files
                       /\ walk_stack' = descend(env, top, kept) \o Tail(walk_stack)
    /\ UNCHANGED <<pc, args, env, config, error, output_file, output, setup_vars,
                   files_data, file_count, total_tokens, read_files, strip_vars>>

\* What the body of the file loop does with one file: "skip" (any continue, a
\* non-text file, a caught read error, an empty text), "record", or the
\* uncaught exception that ends the run.  opened: open() was called;
\* appended: the record was appended before the exception.
file_step(e, a, conf, dir, file, ign, inc, matcher) ==
    LET file_path == Append(dir, file)
        rel_path == relative_to(file_path, RepoPath)
        norm_path_str == PathStr(rel_path)
        read == ReadFile(e, file_path)
        text == IF a.strip_comments /\ suffix(file) = e_py
                THEN strip_python_comments(read.content) ELSE read.content
        skip(o) == [kind |-> "skip", opened |-> o, appended |-> FALSE,
                    path |-> norm_path_str, content |-> <<>>]
        raise(x, o, ap) == [kind |-> x, opened |-> o, appended |-> ap,
                            path |-> norm_path_str, content |-> text]
    IN  IF ~IsUnder(file_path, RepoPath) THEN skip(FALSE)
        ELSE IF include_rejects(norm_path_str, inc) THEN skip(FALSE)
        ELSE IF should_ignore(rel_path, ign) THEN skip(FALSE)
        ELSE IF matcher # None /\ gitignore_match(matcher[1], file_path) THEN skip(FALSE)
        ELSE IF ~HasKey(conf, "text_extensions") THEN raise("KeyError", FALSE, FALSE)
        ELSE IF ~is_text_file(file_path, conf.doc.text_extensions) THEN skip(FALSE)
        ELSE IF ~read.ok
             THEN (IF read_error_caught(read.exc) THEN skip(TRUE)
                   ELSE raise(read.exc, TRUE, FALSE))
        ELSE IF ~NonBlank(text) THEN skip(TRUE)
        ELSE IF ~HasKey(conf, "token_multiplier") THEN raise("KeyError", TRUE, TRUE)
        ELSE [kind |-> "record", opened |-> TRUE, appended |-> TRUE,
              path |-> norm_path_str, content |-> text]

\* One iteration of the file loop.
ProcessFile ==
    /\ pc = "walk"
    /\ cur_files # <<>>
    /\ LET file == Head(cur_files)
           step == file_step(env, args, config, root_path, file, ignore_patterns,
                             include_patterns, gitignore_matcher)
       IN  /\ cur_files' = Tail(cur_files)
           /\ read_files' = IF step.opened THEN read_files \cup {Append(root_path, file)}
                            ELSE read_files
           /\ files_data' = IF step.appended
                            THEN Append(files_data,
                                        [path |-> step.path, content |-> step.content])
                            ELSE files_data
           /\ file_count' = IF step.appended THEN file_count + 1 ELSE file_count
           /\ total_tokens' = IF step.kind = "record"
                              THEN total_tokens
                                   + estimate_tokens(step.content, config.doc.token_multiplier)
                              ELSE total_tokens
           /\ IF step.kind \in {"skip", "record"}
              THEN UNCHANGED <<pc, error>>
              ELSE pc' = "crashed" /\ error' = step.kind
    /\ UNCHANGED <<args, env, config, output_file, output, setup_vars, walk_stack,
                   root_path, visited, strip_vars>>

\* After the walk: the records are written in the chosen format.
WriteOutput ==
    /\ pc = "walk"
    /\ cur_files = <<>>
    /\ walk_stack = <<>>
    /\ output' = Some(render(output_format[1], files_data))
    /\ pc' = "done"
    /\ UNCHANGED <<args, env, config, error, output_file, setup_vars, walk_vars,
                   strip_vars>>

Next == LoadConfig \/ ResolveOutput \/ Prologue \/ WalkDir \/ ProcessFile \/ WriteOutput

Spec == Init /\ [][Next]_vars

(***************************************************************************)
(* strip_python_comments as a function of its input.                       *)
(***************************************************************************)

\* The values the variables of the run hold when no run is going on.
NoRun ==
    /\ args = [include |-> None, exclude |-> None, ignore_gitignore |-> FALSE,
               strip_comments |-> FALSE, output |-> None, format |-> None]
    /\ env = [config_file |-> "full", gitignore |-> "absent", a_kind |-> "code",
              l_kind |-> "regular"]
    /\ config = NoConfig
    /\ error = "none"
    /\ output_file = None
    /\ output_format = None
    /\ ignore_patterns = <<>>
    /\ include_patterns = <<>>
    /\ gitignore_matcher = None
    /\ walk_stack = <<>>
    /\ root_path = <<>>
    /\ cur_files = <<>>
    /\ file_count = 0
    /\ total_tokens = 0
    /\ visited = {}
    /\ read_files = {}

\* Inputs are built from at most MaxPieces of these pieces.
MaxPieces == 5
StripPieces == {DQ3, SQ3, <<"\"", "\"">>, <<"\"">>, <<"#">>, <<"\n">>, <<"a">>}

InitStrip ==
    /\ pc = "strip"
    /\ NoRun
    /\ files_data = <<>>
    /\ output = None
    /\ \E n \in 0..MaxPieces : \E pieces \in [1..n -> StripPieces] :
          content = flatten(pieces)
    /\ stripped = None
    /\ restripped = None

StripOnce ==
    /\ pc = "strip"
    /\ stripped' = Some(strip_python_comments(content))
    /\ pc' = "stripped"
    /\ UNCHANGED <<args, env, config, error, output_file, output, setup_vars, walk_vars,
                   content, restripped>>

StripAgain ==
    /\ pc = "stripped"
    /\ restripped' = Some(strip_python_comments(stripped[1]))
    /\ pc' = "restripped"
    /\ UNCHANGED <<args, env, config, error, output_file, output, setup_vars, walk_vars,
                   content, stripped>>

NextStrip == StripOnce \/ StripAgain

SpecStrip == InitStrip /\ [][NextStrip]_vars

(***************************************************************************)
(* write_json_format as a function of the record list.                     *)
(***************************************************************************)

\* Record lists have at most MaxRecords records.
MaxRecords == 3
JsonPaths == {n_a_py, <<"s", "/", "u", ".", "p", "y">>}
JsonContents == {<<>>, <<"x">>, <<"\"", "\\">>, <<"a", "\n", "b", "\n">>, <<"\\", "n">>}
JsonRecords == [path : JsonPaths, content : JsonContents]

InitJson ==
    /\ pc = "json"
    /\ NoRun
    /\ \E n \in 0..MaxRecords : files_data \in [1..n -> JsonRecords]
    /\ output = None
    /\ content = <<>>
    /\ stripped = None
    /\ restripped = None

WriteJson ==
    /\ pc = "json"
    /\ output' = Some([format |-> "json", payload |-> write_json_format(files_data)])
    /\ pc' = "json_done"
    /\ UNCHANGED <<args, env, config, error, output_file, setup_vars, walk_vars, strip_vars>>

NextJson == WriteJson

SpecJson == InitJson /\ [][NextJson]_vars

(***************************************************************************)
(* What a run was asked to do, read off its arguments, its configuration   *)
(* and the file system, independently of the walk.                         *)
(***************************************************************************)

PresentFiles == {f \in TreeFiles : f # <<n_r, n_gitignore>> \/ env.gitignore # "absent"}
ParentOf(p) == SubSeq(p, 1, Len(p) - 1)
NameOf(p) == p[Len(p)]
RelStr(p) == PathStr(relative_to(p, RepoPath))

\* The records holding file f, and the file a record holds.
RecordIndexes(f) == {i \in 1..Len(files_data) : files_data[i].path = RelStr(f)}
FileOf(i) == CHOOSE f \in TreeFiles : RelStr(f) = files_data[i].path
RecordPaths == [i \in 1..Len(files_data) |-> files_data[i].path]

\* The exclude patterns as given (user patterns, then the configuration's
\* defaults) and the include patterns as given.
RequestedExcludes ==
    OrElse(args.exclude, <<>>)
    \o (IF HasKey(config, "default_exclusions") THEN config.doc.default_exclusions ELSE <<>>)
RequestedIncludes == OrElse(args.include, <<>>)

ExcludeMatches(p) == AnyMatch(RelStr(p), normalize_exclude(RequestedExcludes))
IncludeAccepts(f) ==
    RequestedIncludes = <<>> \/ AnyMatch(RelStr(f), normalize_include(RequestedIncludes))

\* The ignore-file rules are in force: the flag is off and the file parsed.
IgnoreFileActive == ~args.ignore_gitignore /\ env.gitignore \in {"log", "dir"}
IgnoreFileMatches(p) == gitignore_match(GitignoreRules(env.gitignore), p)

\* The extension is one of text_extensions, letter case ignored (the spec's
\* reading), and as the source tests it.
ExtensionListed(f) ==
    /\ HasKey(config, "text_extensions")
    /\ \E i \in 1..Len(config.doc.text_extensions) :
          lower(suffix(NameOf(f))) = lower(config.doc.text_extensions[i])
ExtensionAccepted(f) ==
    /\ HasKey(config, "text_extensions")
    /\ lower(suffix(NameOf(f))) \in Range(config.doc.text_extensions)

\* The content a record of f carries.
ExpectedContent(f) ==
    IF args.strip_comments /\ suffix(NameOf(f)) = e_py
    THEN strip_python_comments(ReadFile(env, f).content)
    ELSE ReadFile(env, f).content

\* f passes every test of the file loop (the include test only when
\* use_include, the ignore-file test only when use_git).
Selected(f, use_include, use_git) ==
    /\ use_include => IncludeAccepts(f)
    /\ ~ExcludeMatches(f)
    /\ (use_git /\ IgnoreFileActive) => ~IgnoreFileMatches(f)
    /\ ExtensionAccepted(f)
    /\ ReadFile(env, f).ok
    /\ NonBlank(ExpectedContent(f))

\* The walk enters directory d from its parent.
DirKept(d, use_git) ==
    /\ ~ExcludeMatches(d)
    /\ (use_git /\ IgnoreFileActive) => ~IgnoreFileMatches(d)
    /\ d \notin LinkDirs

AncestorsWalked(f) == \A k \in 2..(Len(f) - 1) : DirKept(SubSeq(f, 1, k), TRUE)

Eligible(f) == Selected(f, TRUE, TRUE) /\ AncestorsWalked(f)

\* The file loop is through with f.
Processed(f) ==
    /\ ParentOf(f) \in visited
    /\ ~(root_path = ParentOf(f) /\ NameOf(f) \in Range(cur_files))

\* The paths of the selected files in traversal order: a directory's files in
\* listing order, then each kept subdirectory's subtree in listing order.
RECURSIVE ExpectedUnder(_, _, _)
ExpectedUnder(dir, use_include, use_git) ==
    LET l == Listing(env, dir)
        here == SelectSeq(l.files, LAMBDA n : Selected(Append(dir, n), use_include, use_git))
        subs == SelectSeq(l.dirs, LAMBDA n : DirKept(Append(dir, n), use_git))
    IN  [i \in 1..Len(here) |-> RelStr(Append(dir, here[i]))]
        \o flatten([i \in 1..Len(subs) |->
                      ExpectedUnder(Append(dir, subs[i]), use_include, use_git)])

HoldsOnce(f) ==
    /\ Cardinality(RecordIndexes(f)) = 1
    /\ \A i \in RecordIndexes(f) : files_data[i].content = ExpectedContent(f)

(***************************************************************************)
(* The claims.                                                             *)
(***************************************************************************)

\* C1 as stated: at the end of a run, every file whose extension is in
\* text_extensions, whose path no exclude pattern and no ignore-file rule
\* matches, and which matches an include pattern when any is given, is in the
\* records exactly once with its (optionally comment-stripped) content.
C1_EverySelectedFileOnce ==
    pc = "done" =>
        \A f \in PresentFiles :
            (/\ ExtensionListed(f)
             /\ ~ExcludeMatches(f)
             /\ IgnoreFileActive => ~IgnoreFileMatches(f)
             /\ IncludeAccepts(f))
            => HoldsOnce(f)

\* C1 amended: a file that moreover lies in a directory the walk enters, has
\* its lower-cased extension in text_extensions, reads as UTF-8 and is not
\* blank after the optional stripping is, once the file loop is through with
\* it and at the end of the run, in the records exactly once with that
\* content; and no two records share a path.
C1_EligibleFileOnce ==
    /\ \A f \in PresentFiles :
          ((Processed(f) \/ pc = "done") /\ Eligible(f)) => HoldsOnce(f)
    /\ \A i, j \in 1..Len(files_data) :
          files_data[i].path = files_data[j].path => i = j

\* A finished run with comment stripping in which s/u.py, a.py and the
\* upper-case U.PY are all eligible and recorded.
C1_Witness ==
    /\ pc = "done"
    /\ args.strip_comments
    /\ Eligible(<<n_r, n_s, n_u_py>>) /\ HoldsOnce(<<n_r, n_s, n_u_py>>)
    /\ Eligible(<<n_r, n_a_py>>) /\ HoldsOnce(<<n_r, n_a_py>>)
    /\ Eligible(<<n_r, n_U_PY>>) /\ HoldsOnce(<<n_r, n_U_PY>>)

\* C2: a directory below the root whose root-relative path matches a
\* normalized exclude pattern is never yielded by the walk, nor is any
\* directory beneath it, and no record holds a file beneath it, whatever the
\* include patterns; 'b/' stands for the pair 'b' and 'b/*'.
C2_PrunedSubtreeUntouched ==
    /\ \A d \in (RealDirs \cup LinkDirs) \ {RepoPath} :
          ExcludeMatches(d) =>
             /\ \A v \in visited : ~IsUnder(v, d)
             /\ \A i \in 1..Len(files_data) : ~IsUnder(FileOf(i), d)
    /\ p_b_slash \in Range(RequestedExcludes) =>
          /\ {p_b, <<"b", "/", "*">>} \subseteq Range(normalize_exclude(RequestedExcludes))
          /\ \A v \in visited : ~IsUnder(v, <<n_r, n_b>>)
          /\ \A i \in 1..Len(files_data) : ~IsUnder(FileOf(i), <<n_r, n_b>>)

\* A finished run where directory b is excluded by the bare pattern 'b', the
\* files b/x.py and b/d/y.py match the include pattern '*.py' and no exclude
\* pattern, and other files were recorded.
C2_Witness ==
    /\ pc = "done"
    /\ ExcludeMatches(<<n_r, n_b>>)
    /\ RequestedIncludes = <<p_star_py>>
    /\ IncludeAccepts(<<n_r, n_b, n_d, n_y_py>>)
    /\ ~ExcludeMatches(<<n_r, n_b, n_d, n_y_py>>)
    /\ Selected(<<n_r, n_b, n_x_py>>, TRUE, TRUE)
    /\ <<n_r, n_s>> \in visited
    /\ Len(files_data) >= 2

\* C3 as stated: an entry whose resolved path lies outside the resolved root
\* is skipped without an error: a directory is not walked, a file is not read
\* and is in no record.
C3_NothingCrossesRoot ==
    /\ \A d \in visited : IsUnder(resolve(env, d), RepoPath)
    /\ \A f \in PresentFiles :
          ~IsUnder(resolve(env, f), RepoPath) =>
             /\ f \notin read_files
             /\ RecordIndexes(f) = {}

\* C4 as stated: stripping the stripped text changes nothing.
C4_StripIdempotent ==
    pc = "restripped" => restripped = stripped

\* C5: with include patterns given, every record's path matches one of the
\* normalized include patterns as a whole-path glob ('*.py' selects
\* 's/u.py'); with none given (absent or empty), the run records exactly the
\* files that pass the other tests.
C5_IncludeFilter ==
    /\ RequestedIncludes # <<>> =>
          \A i \in 1..Len(files_data) :
             \E k \in 1..Len(RequestedIncludes) :
                fnmatch(files_data[i].path,
                        normalize_include(<<RequestedIncludes[k]>>)[1])
    /\ (pc = "done" /\ RequestedIncludes = <<>>) =>
          RecordPaths = ExpectedUnder(RepoPath, FALSE, TRUE)
    /\ fnmatch(<<"s", "/", "u", ".", "p", "y">>, p_star_py)

\* A finished run with include '*.py' that recorded s/u.py and rejected
\* d.log, which passes every other test.
C5_Witness ==
    /\ pc = "done"
    /\ RequestedIncludes = <<p_star_py>>
    /\ RecordIndexes(<<n_r, n_s, n_u_py>>) # {}
    /\ Selected(<<n_r, n_d_log>>, FALSE, TRUE)
    /\ RecordIndexes(<<n_r, n_d_log>>) = {}

\* C6: no record's path matches an exclude pattern, user-given or default,
\* as written or normalized; with the ignore-file rules in force no record
\* matches one of them; with --ignore-gitignore the rules exclude nothing: the
\* run records exactly the files that pass the other tests.
C6_EitherSourceExcludes ==
    /\ \A i \in 1..Len(files_data) :
          /\ ~AnyMatch(files_data[i].path, RequestedExcludes)
          /\ ~AnyMatch(files_data[i].path, normalize_exclude(RequestedExcludes))
          /\ IgnoreFileActive => ~IgnoreFileMatches(FileOf(i))
    /\ (pc = "done" /\ args.ignore_gitignore) =>
          RecordPaths = ExpectedUnder(RepoPath, TRUE, FALSE)

\* A finished run with --ignore-gitignore that recorded d.log, which the
\* ignore file's '*.log' matches and no exclude pattern does.
C6_Witness ==
    /\ pc = "done"
    /\ args.ignore_gitignore
    /\ env.gitignore = "log"
    /\ IgnoreFileMatches(<<n_r, n_d_log>>)
    /\ ~ExcludeMatches(<<n_r, n_d_log>>)
    /\ RecordIndexes(<<n_r, n_d_log>>) # {}

\* C7: every record holds a file whose extension is one of text_extensions
\* (letter case ignored), whatever the patterns, the flags and the format.
C7_OnlyTextExtensions ==
    \A i \in 1..Len(files_data) : ExtensionListed(FileOf(i))

\* A finished run that recorded files and left out d.log, whose extension is
\* not listed and which passed the include, exclude and ignore-file tests in
\* a directory the walk processed.
C7_Witness ==
    /\ pc = "done"
    /\ Len(files_data) >= 2
    /\ ~ExtensionListed(<<n_r, n_d_log>>)
    /\ IncludeAccepts(<<n_r, n_d_log>>)
    /\ ~ExcludeMatches(<<n_r, n_d_log>>)
    /\ IgnoreFileActive /\ ~IgnoreFileMatches(<<n_r, n_d_log>>)
    /\ RecordIndexes(<<n_r, n_d_log>>) = {}
    /\ output[1].format = "json"

\* The files whose read raised.
ReadFailed == {f \in read_files : ~ReadFile(env, f).ok}

\* C8: a file whose read raises a decoding or I/O error yields no record and
\* does not end the run; the run ends with the output written and with the
\* records of exactly the other eligible files, in traversal order.
C8_ReadFailureSkipsFile ==
    /\ \A f \in ReadFailed : RecordIndexes(f) = {}
    /\ error \notin {"UnicodeDecodeError", "IOError"}
    /\ pc = "done" =>
          /\ output # None
          /\ RecordPaths = ExpectedUnder(RepoPath, TRUE, TRUE)

\* A finished run in which reading the broken link l.py raised, the file
\* after it in the same directory and a file of a later directory were
\* recorded, and the output was written.
C8_Witness ==
    /\ pc = "done"
    /\ <<n_r, n_l_py>> \in ReadFailed
    /\ RecordIndexes(<<n_r, n_d_log>>) # {}
    /\ RecordIndexes(<<n_r, n_s, n_u_py>>) # {}
    /\ output # None

\* C9 as stated: a run that ends with a configuration error has yielded no
\* directory and opened no file.
C9_ConfigErrorBeforeTraversal ==
    error # "none" => (visited = {} /\ read_files = {})

\* C10: the parsed document has total_files equal to the number of entries,
\* total_size equal to the sum of the lengths of the contents, each size equal
\* to the length of its content, and the entries are the input records' paths
\* and contents in the input's order.
C10_JsonSummary ==
    pc = "json_done" =>
        LET doc == json_load(output[1].payload)
        IN  /\ doc.summary.total_files = Len(doc.files)
            /\ doc.summary.total_size = sum_content_len(doc.files)
            /\ Len(doc.files) = Len(files_data)
            /\ \A i \in 1..Len(doc.files) :
                  /\ doc.files[i].size = Len(doc.files[i].content)
                  /\ doc.files[i].path = files_data[i].path
                  /\ doc.files[i].content = files_data[i].content

\* A written document of three records, two of them with different lengths
\* and one with characters that JSON escapes.
C10_Witness ==
    /\ pc = "json_done"
    /\ Len(files_data) = 3
    /\ Len(files_data[1].content) # Len(files_data[2].content)
    /\ files_data[3].content = <<"\"", "\\">>
    /\ output[1].payload.summary.total_size > 3

\* f reached the text-extension test: it passed the include, exclude and
\* ignore-file tests and the configuration has text_extensions.
PassedSkipChecks(f) ==
    /\ Processed(f)
    /\ HasKey(config, "text_extensions")
    /\ IncludeAccepts(f)
    /\ ~ExcludeMatches(f)
    /\ IgnoreFileActive => ~IgnoreFileMatches(f)

\* C11 as stated: a file that passed the skip checks is treated as a text
\* file (it is opened for reading) exactly when its extension equals one of
\* the configured text_extensions with letter case ignored.
C11_ExtensionCompareIgnoresCase ==
    \A f \in PresentFiles :
        PassedSkipChecks(f) => (f \in read_files <=> ExtensionListed(f))

====
